---------------------------- MODULE Spec2Model ----------------------------
(***************************************************************************)
(* Model of streamlit_app.py, the "Excel Insight Wizard": a three step     *)
(* Streamlit wizard (Upload, Relate, Visualize) over st.session_state.     *)
(*                                                                         *)
(* Every action below is one user interaction followed by the complete     *)
(* script rerun that Streamlit performs for it (callback first, then       *)
(* main() from the top).  The value of a widget that a rerun does not      *)
(* render is discarded by Streamlit, so the file uploader is empty again   *)
(* whenever the Upload view is re-entered and the two sheet selectboxes    *)
(* start from their default when the Relate view is re-entered.            *)
(*                                                                         *)
(* Cell values are written as strings ("1" is the number 1, "x" the text   *)
(* x, "NaN" the missing value); a column's dtype says which it is.         *)
(***************************************************************************)
EXTENDS Integers, Naturals, Sequences, FiniteSets, TLC

(***************************************************************************)
(* Python's None and a present value, for every optional in the program.   *)
(***************************************************************************)
None == <<>>
Some(v) == <<v>>

NaN == "NaN"

(***************************************************************************)
(* Bound of the model: the largest number of sheets in an uploaded         *)
(* workbook.                                                               *)
(***************************************************************************)
MaxSheets == 3

----------------------------------------------------------------------------
(***************************************************************************)
(* Sequence helpers.                                                       *)
(***************************************************************************)
Range(s) == {s[i] : i \in 1..Len(s)}

RECURSIVE Flatten(_)
Flatten(ss) == IF ss = <<>> THEN <<>> ELSE Head(ss) \o Flatten(Tail(ss))

----------------------------------------------------------------------------
(***************************************************************************)
(* DataFrames: ordered columns, a dtype per column, ordered rows.          *)
(***************************************************************************)
Cols(df) == Range(df.columns)

EmptyFrame == [columns |-> <<>>, dtypes |-> <<>>, rows |-> <<>>]

\* Sheets a workbook of the model can hold.
TLeft ==
    [columns |-> <<"id", "a">>,
     dtypes  |-> [id |-> "int64", a |-> "object"],
     rows    |-> << [id |-> "1", a |-> "x"], [id |-> "2", a |-> "y"] >>]

TRight ==
    [columns |-> <<"id", "b">>,
     dtypes  |-> [id |-> "int64", b |-> "object"],
     rows    |-> << [id |-> "1", b |-> "p"], [id |-> "3", b |-> "q"] >>]

TText ==
    [columns |-> <<"id">>,
     dtypes  |-> [id |-> "object"],
     rows    |-> << [id |-> "x"] >>]

\* Sheets with a repeated key value and with missing key values.
TDupLeft ==
    [columns |-> <<"id", "a">>,
     dtypes  |-> [id |-> "int64", a |-> "object"],
     rows    |-> << [id |-> "5", a |-> "x"], [id |-> "5", a |-> "y"] >>]

TDupRight ==
    [columns |-> <<"id", "b">>,
     dtypes  |-> [id |-> "int64", b |-> "object"],
     rows    |-> << [id |-> "5", b |-> "p"] >>]

TNullLeft ==
    [columns |-> <<"id", "a">>,
     dtypes  |-> [id |-> "float64", a |-> "object"],
     rows    |-> << [id |-> "1", a |-> "x"], [id |-> NaN, a |-> "y"] >>]

TNullRight ==
    [columns |-> <<"id", "b">>,
     dtypes  |-> [id |-> "float64", b |-> "object"],
     rows    |-> << [id |-> NaN, b |-> "p"], [id |-> "3", b |-> "q"] >>]

MergeCatalogue == {TLeft, TRight, TDupLeft, TDupRight, TNullLeft, TNullRight, TText}

SheetCatalogue == <<TLeft, TRight, TText, EmptyFrame>>

\* Sheet names, in workbook order.
SheetName(i) == "S" \o ToString(i)

(***************************************************************************)
(* pd.merge(left_df, right_df, left_on=, right_on=, how=).                 *)
(***************************************************************************)
JoinTypes == {"inner", "left", "right", "outer"}

\* Sort order of key values (numbers, then text, missing values last).
ValueOrder == <<"1", "2", "3", "5", "p", "q", "x", "y", "NaN">>
Rank(v) == CHOOSE i \in 1..Len(ValueOrder) : ValueOrder[i] = v

\* The options of a "Join Key" selectbox and the value it returns by default.
KeyOptions(df) == IF df.columns = <<>> THEN {None} ELSE {Some(c) : c \in Cols(df)}

\* Columns present on both sides that are not the shared join key.
Overlap(l, r, lk, rk) == {c \in Cols(l) \cap Cols(r) : ~(lk = rk /\ c = lk)}

LName(l, r, lk, rk, c) == IF c \in Overlap(l, r, lk, rk) THEN c \o "_x" ELSE c
RName(l, r, lk, rk, c) == IF c \in Overlap(l, r, lk, rk) THEN c \o "_y" ELSE c

\* Right columns that appear in the result (a shared key appears once).
RKept(r, lk, rk) == SelectSeq(r.columns, LAMBDA c : ~(lk = rk /\ c = rk))

MergedColumns(l, r, lk, rk) ==
    [i \in 1..Len(l.columns) |-> LName(l, r, lk, rk, l.columns[i])]
    \o [i \in 1..Len(RKept(r, lk, rk)) |-> RName(l, r, lk, rk, RKept(r, lk, rk)[i])]

\* Pairings <<li, ri>> of row indices; 0 stands for "no row on that side".
\* Variant: a left row is paired with its first match only.
Matches_first(l, r, lk, rk, li) ==
    LET m == SelectSeq([i \in 1..Len(r.rows) |-> i],
                       LAMBDA ri : l.rows[li][lk] = r.rows[ri][rk])
    IN  IF m = <<>> THEN <<>> ELSE <<m[1]>>

Matches(l, r, lk, rk, li) ==
    SelectSeq([i \in 1..Len(r.rows) |-> i], LAMBDA ri : l.rows[li][lk] = r.rows[ri][rk])

MatchesOfRight(l, r, lk, rk, ri) ==
    SelectSeq([i \in 1..Len(l.rows) |-> i], LAMBDA li : l.rows[li][lk] = r.rows[ri][rk])

\* Variant: every left row is paired with every right row.
InnerPairs_cross(l, r, lk, rk) ==
    Flatten([li \in 1..Len(l.rows) |-> [ri \in 1..Len(r.rows) |-> <<li, ri>>]])

InnerPairs(l, r, lk, rk) ==
    Flatten([li \in 1..Len(l.rows) |->
                [k \in 1..Len(Matches(l, r, lk, rk, li)) |->
                    <<li, Matches(l, r, lk, rk, li)[k]>>]])

LeftPairs(l, r, lk, rk) ==
    Flatten([li \in 1..Len(l.rows) |->
                IF Matches(l, r, lk, rk, li) = <<>>
                THEN << <<li, 0>> >>
                ELSE [k \in 1..Len(Matches(l, r, lk, rk, li)) |->
                        <<li, Matches(l, r, lk, rk, li)[k]>>]])

RightPairs(l, r, lk, rk) ==
    Flatten([ri \in 1..Len(r.rows) |->
                IF MatchesOfRight(l, r, lk, rk, ri) = <<>>
                THEN << <<0, ri>> >>
                ELSE [k \in 1..Len(MatchesOfRight(l, r, lk, rk, ri)) |->
                        <<MatchesOfRight(l, r, lk, rk, ri)[k], ri>>]])

RightOnlyPairs(l, r, lk, rk) ==
    SelectSeq([ri \in 1..Len(r.rows) |-> <<0, ri>>],
              LAMBDA p : MatchesOfRight(l, r, lk, rk, p[2]) = <<>>)

PairKey(l, r, lk, rk, p) == IF p[1] # 0 THEN l.rows[p[1]][lk] ELSE r.rows[p[2]][rk]

\* Stable sort of pairings by key value (how="outer" sorts the keys).
RECURSIVE InsertByKey(_, _, _, _, _, _)
InsertByKey(l, r, lk, rk, sorted, p) ==
    IF sorted = <<>> THEN <<p>>
    ELSE IF Rank(PairKey(l, r, lk, rk, Head(sorted))) <= Rank(PairKey(l, r, lk, rk, p))
         THEN <<Head(sorted)>> \o InsertByKey(l, r, lk, rk, Tail(sorted), p)
         ELSE <<p>> \o sorted

RECURSIVE SortByKey(_, _, _, _, _)
SortByKey(l, r, lk, rk, ps) ==
    IF ps = <<>> THEN <<>>
    ELSE InsertByKey(l, r, lk, rk,
                     SortByKey(l, r, lk, rk, SubSeq(ps, 1, Len(ps) - 1)),
                     ps[Len(ps)])

\* Variant: the unmatched right rows are dropped.
OuterPairs_left(l, r, lk, rk) ==
    SortByKey(l, r, lk, rk, LeftPairs(l, r, lk, rk))

OuterPairs(l, r, lk, rk) ==
    SortByKey(l, r, lk, rk, LeftPairs(l, r, lk, rk) \o RightOnlyPairs(l, r, lk, rk))

Pairs(l, r, lk, rk, how) ==
    CASE how = "inner" -> InnerPairs(l, r, lk, rk)
      [] how = "left"  -> LeftPairs(l, r, lk, rk)
      [] how = "right" -> RightPairs(l, r, lk, rk)
      [] how = "outer" -> OuterPairs(l, r, lk, rk)

\* The output row of one pairing.
LeftPart(l, r, lk, rk, p) ==
    [n \in {LName(l, r, lk, rk, c) : c \in Cols(l)} |->
        LET c == CHOOSE k \in Cols(l) : LName(l, r, lk, rk, k) = n
        IN  IF p[1] # 0 THEN l.rows[p[1]][c]
            ELSE IF lk = rk /\ c = lk THEN r.rows[p[2]][rk]
            ELSE NaN]

RightPart(l, r, lk, rk, p) ==
    [n \in {RName(l, r, lk, rk, c) : c \in Range(RKept(r, lk, rk))} |->
        LET c == CHOOSE k \in Range(RKept(r, lk, rk)) : RName(l, r, lk, rk, k) = n
        IN  IF p[2] # 0 THEN r.rows[p[2]][c] ELSE NaN]

MergedRow(l, r, lk, rk, p) == LeftPart(l, r, lk, rk, p) @@ RightPart(l, r, lk, rk, p)

\* An integer column that receives a missing value becomes a float column.
Promote(dt, hasNaN) == IF hasNaN /\ dt = "int64" THEN "float64" ELSE dt

MergedDtypes(l, r, lk, rk, ps) ==
    LET noLeft  == \E i \in 1..Len(ps) : ps[i][1] = 0
        noRight == \E i \in 1..Len(ps) : ps[i][2] = 0
        lpart == [n \in {LName(l, r, lk, rk, c) : c \in Cols(l)} |->
                    LET c == CHOOSE k \in Cols(l) : LName(l, r, lk, rk, k) = n
                    IN  Promote(l.dtypes[c], noLeft /\ ~(lk = rk /\ c = lk))]
        rpart == [n \in {RName(l, r, lk, rk, c) : c \in Range(RKept(r, lk, rk))} |->
                    LET c == CHOOSE k \in Range(RKept(r, lk, rk)) : RName(l, r, lk, rk, k) = n
                    IN  Promote(r.dtypes[c], noRight)]
    IN  lpart @@ rpart

\* pd.merge raises when a key is missing or the key dtypes cannot be compared.
IsNumeric(dt) == dt \in {"int64", "float64"}

MergeRaises(l, r, left_on, right_on) ==
    \/ left_on = None
    \/ right_on = None
    \/ /\ left_on # None
       /\ right_on # None
       /\ IsNumeric(l.dtypes[left_on[1]]) # IsNumeric(r.dtypes[right_on[1]])

merge(l, r, left_on, right_on, how) ==
    LET lk == left_on[1]
        rk == right_on[1]
        ps == Pairs(l, r, lk, rk, how)
    IN  [columns |-> MergedColumns(l, r, lk, rk),
         dtypes  |-> MergedDtypes(l, r, lk, rk, ps),
         rows    |-> [i \in 1..Len(ps) |-> MergedRow(l, r, lk, rk, ps[i])]]

----------------------------------------------------------------------------
(***************************************************************************)
(* Uploaded files.  pd.ExcelFile raises on a file it cannot open; a sheet  *)
(* that cannot be parsed makes xls.parse raise (broken is its position, 0  *)
(* when every sheet parses).  A workbook has at least one sheet, as the    *)
(* file format requires.                                                   *)
(***************************************************************************)
\* The workbook with n sheets that starts at entry k of the catalogue.
Workbook(k, n) ==
    [opens  |-> TRUE,
     sheets |-> [i \in 1..n |-> SheetCatalogue[((k + i - 2) % Len(SheetCatalogue)) + 1]],
     broken |-> 0]

Workbooks == {Workbook(k, n) : k \in 1..Len(SheetCatalogue), n \in 1..MaxSheets}

Unreadable == [opens |-> FALSE, sheets |-> <<>>, broken |-> 0]

HalfCorrupt == [opens |-> TRUE, sheets |-> <<TLeft, TRight>>, broken |-> 2]

Files == Workbooks \cup {Unreadable, HalfCorrupt}

(***************************************************************************)
(* st.session_state and the widget values Streamlit keeps between reruns.  *)
(***************************************************************************)
VARIABLES
    step,           \* st.session_state.step: 1 Upload, 2 Relate, 3 Visualize
    dataframes,     \* st.session_state.dataframes: the dict, in insertion order
    final_df,       \* st.session_state.final_df: None or Some(DataFrame)
    uploaded_file,  \* value of the file uploader: None or Some(file)
    left_sheet,     \* value of the selectbox with key 'left_sheet'
    right_sheet,    \* value of the selectbox with key 'right_sheet'
    message,        \* the st.success / st.error box the last run displayed
    last,           \* the interaction the last run handled
    join            \* the join selectboxes' values when the last run merged

vars == <<step, dataframes, final_df, uploaded_file, left_sheet, right_sheet,
          message, last, join>>

\* list(st.session_state.dataframes.keys()) and st.session_state.dataframes[k]
Keys(d) == [i \in 1..Len(d) |-> d[i].sheet]
Lookup(d, k) == d[CHOOSE i \in 1..Len(d) : d[i].sheet = k].df
Frames(d) == {d[i].df : i \in 1..Len(d)}

(***************************************************************************)
(* load_excel_file: the dict comprehension is evaluated completely before  *)
(* it is assigned, so an exception leaves st.session_state.dataframes as   *)
(* it was.                                                                 *)
(***************************************************************************)
LoadRaises(f) == ~f.opens \/ f.broken # 0

Parsed(f) == [i \in 1..Len(f.sheets) |-> [sheet |-> SheetName(i), df |-> f.sheets[i]]]

\* Variant: the sheets parsed before the exception are kept.
load_excel_file_partial(d, f) ==
    IF ~f.opens THEN d
    ELSE IF f.broken # 0 THEN SubSeq(Parsed(f), 1, f.broken - 1)
    ELSE Parsed(f)

load_excel_file(d, f) == IF LoadRaises(f) THEN d ELSE Parsed(f)

load_message(f) == IF LoadRaises(f) THEN "load_error" ELSE "loaded"

\* Variant: every upload is loaded.
ShouldLoad_always(d) == TRUE

\* `if not st.session_state.dataframes:` in render_step1_upload
ShouldLoad(d) == d = <<>>

(***************************************************************************)
(* What each view offers, as a function of the state.                      *)
(***************************************************************************)
\* Variant: the left sheet is not excluded.
RightOptions_all(d, left) == Keys(d)

\* The options of the right selectbox.
RightOptions(d, left) == SelectSeq(Keys(d), LAMBDA s : Some(s) # left)

\* The value a selectbox starts with: its first option, None without options.
DefaultOf(options) == IF options = <<>> THEN None ELSE Some(options[1])

\* render_step2_relations raises KeyError at dataframes[right_sheet] when the
\* right selectbox has no option; nothing below that line is rendered.
Step2Raises(d, left) == left = None \/ RightOptions(d, left) = <<>>

\* Variant: the button does not depend on the dict.
NextRelateOffered_anyUpload ==
    step = 1 /\ uploaded_file # None

NextRelateOffered ==
    step = 1 /\ uploaded_file # None /\ dataframes # <<>>

MergeOffered == step = 2 /\ ~Step2Raises(dataframes, left_sheet)

\* Variant: Back is also offered in the Visualize view.
BackOffered_anyStep == step \in {2, 3}

BackOffered == step = 2 /\ ~Step2Raises(dataframes, left_sheet)

SkipOffered ==
    step = 2 /\ ~Step2Raises(dataframes, left_sheet) /\ final_df = None

\* Variant: the button does not depend on final_df.
NextVisualizeOffered_always ==
    step = 2 /\ ~Step2Raises(dataframes, left_sheet)

NextVisualizeOffered ==
    step = 2 /\ ~Step2Raises(dataframes, left_sheet) /\ final_df # None

StartOverOffered == step = 3

----------------------------------------------------------------------------
Init ==
    /\ step = 1
    /\ dataframes = <<>>
    /\ final_df = None
    /\ uploaded_file = None
    /\ left_sheet = None
    /\ right_sheet = None
    /\ message = "none"
    /\ last = "init"
    /\ join = None

(***************************************************************************)
(* Upload view.                                                            *)
(***************************************************************************)
\* The user puts file f into the uploader; the rerun loads it if the dict
\* is empty.
UploadFile(f) ==
    /\ step = 1
    /\ uploaded_file # Some(f)
    /\ uploaded_file' = Some(f)
    /\ dataframes' = IF ShouldLoad(dataframes)
                     THEN load_excel_file(dataframes, f)
                     ELSE dataframes
    /\ message' = IF ShouldLoad(dataframes) THEN load_message(f) ELSE "none"
    /\ last' = "upload"
    /\ join' = None
    /\ UNCHANGED <<step, final_df, left_sheet, right_sheet>>

\* The user removes the file from the uploader.
ClearUpload ==
    /\ step = 1
    /\ uploaded_file # None
    /\ uploaded_file' = None
    /\ message' = "none"
    /\ last' = "clear"
    /\ join' = None
    /\ UNCHANGED <<step, dataframes, final_df, left_sheet, right_sheet>>

\* "Next: Build Relationships": move_to_step(2), then the Relate view is
\* rendered with both selectboxes at their default.
ClickNextRelate ==
    /\ NextRelateOffered
    /\ step' = 2
    /\ uploaded_file' = None
    /\ left_sheet' = DefaultOf(Keys(dataframes))
    /\ right_sheet' = DefaultOf(RightOptions(dataframes, DefaultOf(Keys(dataframes))))
    /\ message' = "none"
    /\ last' = "next_relate"
    /\ join' = None
    /\ UNCHANGED <<dataframes, final_df>>

(***************************************************************************)
(* Relate view.                                                            *)
(***************************************************************************)
\* The values the right selectbox can have after the left one changed: its
\* default, or the previous value when that is still an option.
RightAfterLeft(d, left, right) ==
    {DefaultOf(RightOptions(d, left))}
    \cup {r \in {right} : r # None /\ r # left}

SelectLeftSheet(s) ==
    /\ step = 2
    /\ s \in Range(Keys(dataframes))
    /\ left_sheet # Some(s)
    /\ left_sheet' = Some(s)
    /\ right_sheet' \in RightAfterLeft(dataframes, Some(s), right_sheet)
    /\ message' = "none"
    /\ last' = "select_left"
    /\ join' = None
    /\ UNCHANGED <<step, dataframes, final_df, uploaded_file>>

SelectRightSheet(s) ==
    /\ step = 2
    /\ s \in Range(RightOptions(dataframes, left_sheet))
    /\ right_sheet # Some(s)
    /\ right_sheet' = Some(s)
    /\ message' = "none"
    /\ last' = "select_right"
    /\ join' = None
    /\ UNCHANGED <<step, dataframes, final_df, uploaded_file, left_sheet>>

\* Variant: a failed merge clears final_df.
AfterMerge_clears(final, l, r, left_on, right_on, how) ==
    IF MergeRaises(l, r, left_on, right_on)
    THEN None
    ELSE Some(merge(l, r, left_on, right_on, how))

\* Variant: a failed merge falls back to the left sheet.
AfterMerge_keepsLeft(final, l, r, left_on, right_on, how) ==
    IF MergeRaises(l, r, left_on, right_on)
    THEN Some(l)
    ELSE Some(merge(l, r, left_on, right_on, how))

\* The try block of "Merge Sheets": final_df is assigned only when pd.merge
\* returned.
AfterMerge(final, l, r, left_on, right_on, how) ==
    IF MergeRaises(l, r, left_on, right_on)
    THEN final
    ELSE Some(merge(l, r, left_on, right_on, how))

merge_message(l, r, left_on, right_on) ==
    IF MergeRaises(l, r, left_on, right_on) THEN "merge_failed" ELSE "merged"

ClickMergeSheets(left_on, right_on, how) ==
    /\ MergeOffered
    /\ LET left_df  == Lookup(dataframes, left_sheet[1])
           right_df == Lookup(dataframes, right_sheet[1])
       IN  /\ left_on \in KeyOptions(left_df)
           /\ right_on \in KeyOptions(right_df)
           /\ final_df' = AfterMerge(final_df, left_df, right_df, left_on, right_on, how)
           /\ message' = merge_message(left_df, right_df, left_on, right_on)
    /\ last' = "merge"
    /\ join' = Some([left_on |-> left_on, right_on |-> right_on, how |-> how])
    /\ UNCHANGED <<step, dataframes, uploaded_file, left_sheet, right_sheet>>

\* Variant: Back empties the dict.
ClickBack_clears ==
    /\ BackOffered
    /\ step' = 1
    /\ dataframes' = <<>>
    /\ left_sheet' = None
    /\ right_sheet' = None
    /\ uploaded_file' = None
    /\ message' = "none"
    /\ last' = "back"
    /\ join' = None
    /\ UNCHANGED final_df

\* "Back": move_to_step(1); the Upload view is rendered with an empty
\* uploader.
ClickBack ==
    /\ BackOffered
    /\ step' = 1
    /\ left_sheet' = None
    /\ right_sheet' = None
    /\ uploaded_file' = None
    /\ message' = "none"
    /\ last' = "back"
    /\ join' = None
    /\ UNCHANGED <<dataframes, final_df>>

\* Variant: the first sheet is used whatever the selection.
SkipTable_first == Lookup(dataframes, Keys(dataframes)[1])

\* `st.session_state.final_df = left_df`
SkipTable == Lookup(dataframes, left_sheet[1])

ClickSkipMerge ==
    /\ SkipOffered
    /\ final_df' = Some(SkipTable)
    /\ step' = 3
    /\ left_sheet' = None
    /\ right_sheet' = None
    /\ message' = "none"
    /\ last' = "skip"
    /\ join' = None
    /\ UNCHANGED <<dataframes, uploaded_file>>

ClickNextVisualize ==
    /\ NextVisualizeOffered
    /\ step' = 3
    /\ left_sheet' = None
    /\ right_sheet' = None
    /\ message' = "none"
    /\ last' = "next_visualize"
    /\ join' = None
    /\ UNCHANGED <<dataframes, final_df, uploaded_file>>

(***************************************************************************)
(* Visualize view.                                                         *)
(***************************************************************************)
\* Variant: final_df survives the reset.
ClickStartOver_keepsFinal ==
    /\ StartOverOffered
    /\ dataframes' = <<>>
    /\ step' = 1
    /\ message' = "none"
    /\ last' = "start_over"
    /\ join' = None
    /\ UNCHANGED <<final_df, uploaded_file, left_sheet, right_sheet>>

\* Variant: the dict survives the reset.
ClickStartOver_keepsStore ==
    /\ StartOverOffered
    /\ final_df' = None
    /\ step' = 1
    /\ message' = "none"
    /\ last' = "start_over"
    /\ join' = None
    /\ UNCHANGED <<dataframes, uploaded_file, left_sheet, right_sheet>>

ClickStartOver ==
    /\ StartOverOffered
    /\ dataframes' = <<>>
    /\ final_df' = None
    /\ step' = 1
    /\ message' = "none"
    /\ last' = "start_over"
    /\ join' = None
    /\ UNCHANGED <<uploaded_file, left_sheet, right_sheet>>

Next ==
    \/ \E f \in Files : UploadFile(f)
    \/ ClearUpload
    \/ ClickNextRelate
    \/ \E s \in {SheetName(i) : i \in 1..MaxSheets} : SelectLeftSheet(s)
    \/ \E s \in {SheetName(i) : i \in 1..MaxSheets} : SelectRightSheet(s)
    \/ \E left_on, right_on \in {None} \cup {Some(c) : c \in {"id", "a", "b"}} :
         \E how \in JoinTypes : ClickMergeSheets(left_on, right_on, how)
    \/ ClickBack
    \/ ClickSkipMerge
    \/ ClickNextVisualize
    \/ ClickStartOver

(***************************************************************************)
(* The Relate view on its own: it starts right after "Next: Build          *)
(* Relationships" on a two sheet workbook and takes the interactions that  *)
(* choose and run a merge.                                                 *)
(***************************************************************************)
MergeInit ==
    /\ step = 2
    /\ \E l, r \in MergeCatalogue :
          dataframes = <<[sheet |-> SheetName(1), df |-> l],
                         [sheet |-> SheetName(2), df |-> r]>>
    /\ final_df = None
    /\ uploaded_file = None
    /\ left_sheet = Some(SheetName(1))
    /\ right_sheet = Some(SheetName(2))
    /\ message = "none"
    /\ last = "next_relate"
    /\ join = None

MergeNext ==
    \/ \E s \in {SheetName(1), SheetName(2)} : SelectLeftSheet(s)
    \/ \E left_on, right_on \in {None} \cup {Some(c) : c \in {"id", "a", "b"}} :
         \E how \in JoinTypes : ClickMergeSheets(left_on, right_on, how)

MergeSpec == MergeInit /\ [][MergeNext]_vars

Spec == Init /\ [][Next]_vars

----------------------------------------------------------------------------
(***************************************************************************)
(* Properties.                                                             *)
(***************************************************************************)

\* Every result pd.merge can return for the frames l and r.
MergesOf(l, r) ==
    UNION {IF MergeRaises(l, r, lo, ro)
           THEN {}
           ELSE {merge(l, r, lo, ro, how) : how \in JoinTypes} :
              lo \in KeyOptions(l), ro \in KeyOptions(r)}

\* Every result pd.merge can return for two distinct sheets of the dict d.
MergeResults(d) ==
    UNION {MergesOf(Lookup(d, p[1]), Lookup(d, p[2])) :
              p \in {q \in Range(Keys(d)) \X Range(Keys(d)) : q[1] # q[2]}}

\* df is a result pd.merge can return for two distinct sheets of the dict d.
IsMergeResult(d, df) ==
    \E p \in {q \in Range(Keys(d)) \X Range(Keys(d)) : q[1] # q[2]} :
        LET l == Lookup(d, p[1])
            r == Lookup(d, p[2])
        IN  \E lo \in KeyOptions(l), ro \in KeyOptions(r) :
               /\ ~MergeRaises(l, r, lo, ro)
               /\ MergedColumns(l, r, lo[1], ro[1]) = df.columns
               /\ \E how \in JoinTypes : merge(l, r, lo, ro, how) = df

\* C1: once the dict is loaded, an upload in the Upload view changes neither
\* the dict, the step nor final_df, and no interaction but Start Over
\* changes the dict.
C1_LoadOnce ==
    [][dataframes # <<>> =>
          /\ last' = "upload" =>
                /\ dataframes' = dataframes
                /\ step' = step
                /\ final_df' = final_df
          /\ last' # "start_over" => dataframes' = dataframes]_vars

C1_Witness ==
    /\ last = "upload"
    /\ dataframes # <<>>
    /\ final_df # None
    /\ ~LoadRaises(uploaded_file[1])
    /\ Parsed(uploaded_file[1]) # dataframes

\* C2: a merge that fails leaves step, dict, final_df and both sheet
\* selections as they were.
C2_MergeFailureKeepsState ==
    [][(last' = "merge" /\ message' = "merge_failed") =>
          /\ step = 2 /\ step' = 2
          /\ dataframes' = dataframes
          /\ final_df' = final_df
          /\ left_sheet' = left_sheet
          /\ right_sheet' = right_sheet]_vars

C2_Witness ==
    last = "merge" /\ message = "merge_failed" /\ final_df # None

\* C3: in the Visualize view final_df is set, and the view is entered from
\* Relate only by Skip (final_df becomes the selected left sheet) or by
\* Next with the result of a merge already in final_df.
C3_VisualizeHasFinal ==
    /\ [](step = 3 => final_df # None)
    /\ [][(step = 2 /\ step' = 3) =>
             \/ /\ last' = "skip"
                /\ final_df' = Some(Lookup(dataframes, left_sheet[1]))
             \/ /\ last' = "next_visualize"
                /\ final_df # None
                /\ final_df' = final_df
                /\ IsMergeResult(dataframes, final_df[1])]_vars

C3_Witness ==
    step = 3 /\ last = "next_visualize" /\ final_df # None

\* C4: final_df is None, a sheet of the current dict, or the complete result
\* of one merge of two distinct sheets of the current dict.
C4_FinalFromCurrentStore ==
    \/ final_df = None
    \/ final_df[1] \in Frames(dataframes)
    \/ IsMergeResult(dataframes, final_df[1])

C4_Witness ==
    /\ step = 3
    /\ final_df # None
    /\ final_df[1] \notin Frames(dataframes)

\* C5: Skip sets final_df to the selected left sheet, sets step to 3 and
\* leaves the dict alone.
C5_SkipUsesLeftSheet ==
    [][last' = "skip" =>
          /\ step = 2 /\ step' = 3
          /\ final_df' = Some(Lookup(dataframes, left_sheet[1]))
          /\ dataframes' = dataframes]_vars

C5_Witness ==
    /\ last = "skip"
    /\ step = 3
    /\ Len(dataframes) >= 2
    /\ final_df = Some(dataframes[2].df)
    /\ dataframes[1].df # dataframes[2].df

\* C6: Start Over leaves an empty dict, no final_df and step 1, and the
\* upload that follows it is loaded.
C6_StartOverResets ==
    /\ [][last' = "start_over" =>
             /\ dataframes' = <<>>
             /\ final_df' = None
             /\ step' = 1]_vars
    /\ [][(last = "start_over" /\ last' = "upload"
             /\ ~LoadRaises(uploaded_file'[1])) =>
             /\ dataframes' = Parsed(uploaded_file'[1])
             /\ message' = "loaded"]_vars

C6_Witness ==
    last = "start_over" /\ step = 1 /\ dataframes = <<>>

\* C7: with exactly one sheet in the dict the Relate view offers no merge
\* but offers Skip.
C7_SingleSheetOffersSkip ==
    (step = 2 /\ Len(dataframes) = 1) => (~MergeOffered /\ SkipOffered)

\* C8: the right selectbox never offers the selected left sheet, its value
\* is one of its options, and no merge runs with left = right.
C8_NoSelfJoin ==
    step = 2 =>
        /\ left_sheet # None
        /\ left_sheet[1] \notin Range(RightOptions(dataframes, left_sheet))
        /\ right_sheet # None =>
              /\ right_sheet # left_sheet
              /\ right_sheet[1] \in Range(RightOptions(dataframes, left_sheet))
        /\ MergeOffered => (right_sheet # None /\ right_sheet # left_sheet)

C8_Witness ==
    /\ step = 2
    /\ last = "select_left"
    /\ right_sheet # None
    /\ left_sheet[1] = Keys(dataframes)[2]

\* C9: the step from Upload to Relate is offered only with a loaded dict,
\* and the dict is loaded whenever step is 2 or 3.
C9_StoreLoadedBeyondUpload ==
    /\ NextRelateOffered => dataframes # <<>>
    /\ step \in {2, 3} => dataframes # <<>>

C9_Witness ==
    step = 2 /\ last = "next_relate"

\* C10: a load that raises leaves the dict empty, final_df None and step 1,
\* and an upload that parses is loaded whenever the dict is still empty.
C10_LoadFailureKeepsState ==
    /\ [][(last' = "upload" /\ message' = "load_error") =>
             /\ dataframes = <<>> /\ dataframes' = <<>>
             /\ final_df = None /\ final_df' = None
             /\ step = 1 /\ step' = 1]_vars
    /\ [][(message = "load_error" /\ last' = "upload"
             /\ ~LoadRaises(uploaded_file'[1])) =>
             /\ dataframes' = Parsed(uploaded_file'[1])
             /\ message' = "loaded"]_vars

C10_Witness ==
    /\ last = "upload"
    /\ message = "load_error"
    /\ uploaded_file = Some(HalfCorrupt)
    /\ dataframes = <<>>

\* C11: in the Visualize view only Start Over changes step, dict or
\* final_df, and no step leads from Visualize to Relate.
C11_VisualizeTerminal ==
    [][step = 3 =>
          /\ step' # 2
          /\ \/ last' = "start_over"
             \/ /\ step' = step
                /\ dataframes' = dataframes
                /\ final_df' = final_df]_vars

C11_Witness ==
    step = 3 /\ last = "skip" /\ dataframes # <<>> /\ final_df # None

\* C12: Back is offered in every state of the Relate view, and it sets step
\* to 1 without changing the dict or final_df.
C12_BackAlwaysPermitted ==
    /\ [](step = 2 => BackOffered)
    /\ [][last' = "back" =>
             /\ step' = 1
             /\ dataframes' = dataframes
             /\ final_df' = final_df]_vars

\* C13: the dict changes only by a load into the empty dict or by Start
\* Over; merge, skip, next and back leave every sheet as it was.
C13_StoreImmutable ==
    [][dataframes' # dataframes =>
          \/ last' = "upload" /\ dataframes = <<>> /\ message' = "loaded"
          \/ last' = "start_over" /\ dataframes' = <<>>]_vars

C13_Witness ==
    /\ last = "merge"
    /\ message = "merged"
    /\ final_df # None
    /\ final_df[1] \notin Frames(dataframes)
    /\ step = 2

\* C14 as stated: after a failed merge final_df is None and step is 2.
C14_FailedMergeUnsetsFinal ==
    [][(last' = "merge" /\ message' = "merge_failed") =>
          /\ final_df' = None
          /\ step' = 2]_vars

\* C14 as amended: after a failed merge step is 2 and final_df is what it
\* was before the attempt: None when no merge had succeeded, otherwise the
\* result of the earlier merge.
C14_FailedMergeKeepsFinal ==
    [][(last' = "merge" /\ message' = "merge_failed") =>
          /\ step' = 2
          /\ final_df = None => final_df' = None
          /\ final_df # None => final_df' = final_df]_vars

C14_Witness ==
    /\ last = "merge"
    /\ message = "merge_failed"
    /\ step = 2
    /\ final_df # None
    /\ final_df[1] \in MergeResults(dataframes)

----------------------------------------------------------------------------
(***************************************************************************)
(* Properties of the merge result, read off the state after a successful   *)
(* "Merge Sheets".                                                         *)
(***************************************************************************)
MergeDone(how) ==
    last = "merge" /\ message = "merged" /\ join # None /\ join[1].how = how

LeftDf == Lookup(dataframes, left_sheet[1])
RightDf == Lookup(dataframes, right_sheet[1])
LeftKey == join[1].left_on[1]
RightKey == join[1].right_on[1]
OutRows == final_df[1].rows

Count(seq, x) == Cardinality({i \in 1..Len(seq) : seq[i] = x})

\* Pairs of a left and a right row whose key values are the same value; a
\* missing value is the same value as a missing value.
EqualKeyPairs(l, r, lk, rk) ==
    {p \in (1..Len(l.rows)) \X (1..Len(r.rows)) :
        l.rows[p[1]][lk] = r.rows[p[2]][rk]}

\* The same, a missing key value being equal to nothing.
StrictEqualKeyPairs(l, r, lk, rk) ==
    {p \in EqualKeyPairs(l, r, lk, rk) : l.rows[p[1]][lk] # NaN}

UnmatchedLeft(l, r, lk, rk) ==
    {li \in 1..Len(l.rows) : \A p \in EqualKeyPairs(l, r, lk, rk) : p[1] # li}

UnmatchedRight(l, r, lk, rk) ==
    {ri \in 1..Len(r.rows) : \A p \in EqualKeyPairs(l, r, lk, rk) : p[2] # ri}

\* out holds one row for every pairing of P and no other row.
RowsArePairings(out, l, r, lk, rk, P) ==
    /\ Len(out) = Cardinality(P)
    /\ \A p \in P :
          Count(out, MergedRow(l, r, lk, rk, p))
            = Cardinality({q \in P : MergedRow(l, r, lk, rk, q)
                                        = MergedRow(l, r, lk, rk, p)})

OnId == join # None /\ join[1].left_on = Some("id") /\ join[1].right_on = Some("id")

\* C15 as stated: an inner merge yields exactly the pairings of rows whose
\* key values are equal (a missing value equal to nothing); unmatched rows
\* are absent; the example yields the single row {id:1, a:x, b:p}.
C15_InnerStrictEquality ==
    MergeDone("inner") =>
        /\ RowsArePairings(OutRows, LeftDf, RightDf, LeftKey, RightKey,
                           StrictEqualKeyPairs(LeftDf, RightDf, LeftKey, RightKey))
        /\ (LeftDf = TLeft /\ RightDf = TRight /\ OnId) =>
              OutRows = << [id |-> "1", a |-> "x", b |-> "p"] >>

\* C15 as amended: an inner merge yields exactly the pairings of rows whose
\* key values are equal, a missing key value on the left being paired with
\* a missing key value on the right; unmatched rows are absent; the example
\* yields the single row {id:1, a:x, b:p}.
C15_InnerPairings ==
    MergeDone("inner") =>
        /\ RowsArePairings(OutRows, LeftDf, RightDf, LeftKey, RightKey,
                           EqualKeyPairs(LeftDf, RightDf, LeftKey, RightKey))
        /\ (LeftDf = TLeft /\ RightDf = TRight /\ OnId) =>
              OutRows = << [id |-> "1", a |-> "x", b |-> "p"] >>

C15_Witness ==
    /\ MergeDone("inner")
    /\ LeftDf = TNullLeft
    /\ RightDf = TNullRight
    /\ OnId
    /\ OutRows = << [id |-> NaN, a |-> "y", b |-> "p"] >>

\* C16: an outer merge yields the matched pairings, every unmatched left row
\* with the right columns missing and every unmatched right row with the
\* left columns missing; the example yields 3 rows.
C16_OuterPairings ==
    MergeDone("outer") =>
        LET l  == LeftDf
            r  == RightDf
            lk == LeftKey
            rk == RightKey
            UL == UnmatchedLeft(l, r, lk, rk)
            UR == UnmatchedRight(l, r, lk, rk)
        IN  /\ RowsArePairings(OutRows, l, r, lk, rk,
                               EqualKeyPairs(l, r, lk, rk)
                               \cup {<<li, 0>> : li \in UL}
                               \cup {<<0, ri>> : ri \in UR})
            /\ \A li \in UL : \E i \in 1..Len(OutRows) :
                  /\ \A c \in Cols(l) : OutRows[i][LName(l, r, lk, rk, c)] = l.rows[li][c]
                  /\ \A c \in Range(RKept(r, lk, rk)) :
                        OutRows[i][RName(l, r, lk, rk, c)] = NaN
            /\ \A ri \in UR : \E i \in 1..Len(OutRows) :
                  /\ \A c \in Range(RKept(r, lk, rk)) :
                        OutRows[i][RName(l, r, lk, rk, c)] = r.rows[ri][c]
                  /\ \A c \in Cols(l) :
                        OutRows[i][LName(l, r, lk, rk, c)]
                          = IF lk = rk /\ c = lk THEN r.rows[ri][rk] ELSE NaN
            /\ (l = TLeft /\ r = TRight /\ OnId) =>
                  /\ Len(OutRows) = 3
                  /\ Range(OutRows) = {[id |-> "1", a |-> "x", b |-> "p"],
                                       [id |-> "2", a |-> "y", b |-> NaN],
                                       [id |-> "3", a |-> NaN, b |-> "q"]}

C16_Witness ==
    /\ MergeDone("outer")
    /\ LeftDf = TLeft
    /\ RightDf = TRight
    /\ OnId
    /\ Len(OutRows) = 3

\* Name of the right key column in the result.
RightKeyName(l, r, lk, rk) == IF lk = rk THEN lk ELSE RName(l, r, lk, rk, rk)

\* Number of result rows that pair a left and a right row of key value v.
RowsOfKey(out, l, r, lk, rk, v) ==
    Cardinality({i \in 1..Len(out) :
                    /\ out[i][LName(l, r, lk, rk, lk)] = v
                    /\ out[i][RightKeyName(l, r, lk, rk)] = v})

KeyCount(df, k, v) == Cardinality({i \in 1..Len(df.rows) : df.rows[i][k] = v})

\* C17: a key value that occurs m times on the left and n times on the right
\* yields m*n result rows; two left rows and one right row of key 5 give 2
\* rows under an inner merge.
C17_RowMultiplicity ==
    (last = "merge" /\ message = "merged") =>
        /\ \A v \in Range(ValueOrder) :
              LET m == KeyCount(LeftDf, LeftKey, v)
                  n == KeyCount(RightDf, RightKey, v)
              IN  (join[1].how = "inner" \/ (m >= 1 /\ n >= 1)) =>
                     RowsOfKey(OutRows, LeftDf, RightDf, LeftKey, RightKey, v) = m * n
        /\ (MergeDone("inner") /\ LeftDf = TDupLeft /\ RightDf = TDupRight /\ OnId) =>
              Len(OutRows) = 2

C17_Witness ==
    /\ MergeDone("inner")
    /\ LeftDf = TDupLeft
    /\ RightDf = TDupRight
    /\ OnId
    /\ Len(OutRows) = 2

----------------------------------------------------------------------------
\* C18: the view is determined by step, dict and final_df: the Upload view
\* entered again by Back, with the dict still loaded, offers the preview and
\* "Next: Build Relationships" as it did before it was left.
C18_SameViewOnReentry ==
    [][last' = "back" => (dataframes' # <<>> /\ NextRelateOffered')]_vars

\* C19: in every state of the Relate view Skip is offered exactly when
\* final_df is None and "Next: Visualize" exactly when it is not.
C19_OneForwardAction ==
    step = 2 =>
        /\ SkipOffered <=> final_df = None
        /\ NextVisualizeOffered <=> final_df # None

=============================================================================
